---- MODULE Spec2Model ----
(***************************************************************************)
(* Plot layout engine of the farm planner: automatic placement of a new   *)
(* plot (AddPlotModal.getNextPlotPosition), interactive dragging           *)
(* (DraggablePlot.handleMouseMove -> GridDesigner.handlePlotMove ->        *)
(* MemStorage.updatePlot) and the query cache that both read; and the field *)
(* boundary surveyor (SurveyorTool): the boundary walk and the area and     *)
(* perimeter it measures (calculatePolygonArea, calculatePerimeter).        *)
(***************************************************************************)
EXTENDS Integers, Sequences, FiniteSets, TLC

VARIABLES
    plots,          \* MemStorage.plots of the farm, in insertion order
    existingPlots,  \* the client's cached answer of ['/api/farms', farmId, 'plots']
    gridSize,       \* GridDesigner's selected grid size
    placement,      \* history: for each created plot, what getNextPlotPosition returned
    lastMove,       \* history: the last mousemove a DraggablePlot handled, and whether it called onMove
    moves,          \* number of mousemove events handled so far
    pc,             \* position of the step-by-step run of getNextPlotPosition
    sw, sh,         \* its arguments plotWidth, plotHeight
    sx, sy,         \* its loop variables x, y
    result,         \* what it returned
    mounted,        \* SurveyorTool: the mount effect has run
    gpsSupported,   \* SurveyorTool state gpsSupported
    positionRequest,\* the getCurrentPosition request of the mount effect is pending
    currentLocation,\* SurveyorTool state currentLocation: <<>> for null, else <<fix>>
    isWalking,      \* SurveyorTool state isWalking
    currentWalk,    \* SurveyorTool state currentWalk
    fieldMeasurements, \* SurveyorTool state fieldMeasurements
    boundaryPoints, \* SurveyorTool state boundaryPoints
    watchIdRef,     \* watchIdRef.current: <<>> for null, else <<id>>
    watches,        \* ids of the position watches registered with navigator.geolocation
    alert,          \* history: the alert the last step showed, "none" if it showed none
    points,         \* argument of a direct call of the two measuring functions
    area,           \* what calculatePolygonArea(points) returned: <<>> before the call, else <<value>>
    perimeter,      \* what calculatePerimeter(points) returned: <<>> before the call, else <<value>>
    isDragging,     \* DraggablePlot state isDragging
    dragListeners,  \* number of mousemove/mouseup listener pairs DraggablePlot has on the document
    buttonDown      \* the mouse button is held down

vars == <<plots, existingPlots, gridSize, placement, lastMove, moves,
          pc, sw, sh, sx, sy, result,
          mounted, gpsSupported, positionRequest, currentLocation, isWalking,
          currentWalk, fieldMeasurements, boundaryPoints, watchIdRef, watches, alert,
          points, area, perimeter,
          isDragging, dragListeners, buttonDown>>

layoutVars == <<plots, existingPlots, gridSize, placement, lastMove, moves>>
scanVars == <<pc, sw, sh, sx, sy, result>>
surveyVars == <<mounted, gpsSupported, positionRequest, currentLocation, isWalking,
                currentWalk, fieldMeasurements, boundaryPoints, watchIdRef, watches,
                alert>>
geometryVars == <<points, area, perimeter>>
dragVars == <<isDragging, dragListeners, buttonDown>>

----------------------------------------------------------------------------
(* Bounds of the model *)

MaxPlots == 3
MaxMoves == 1

MaxCorners == 4
MaxFieldCorners == 6
MaxListeners == 2

(* Constants of getNextPlotPosition *)
SPACING == 1
BOUNDARY_MARGIN == 1
GRID_MAX_WIDTH == 30
GRID_MAX_HEIGHT == 30

(* Constant of DraggablePlot.handleMouseMove *)
DRAG_BOUNDARY_MARGIN == 1

(* GridDesigner.gridSizeMap *)
gridSizeMap ==
    [g \in {"20x20", "30x30", "40x40"} |->
        CASE g = "20x20" -> [width |-> 20, height |-> 20, cellSize |-> 30]
          [] g = "30x30" -> [width |-> 30, height |-> 30, cellSize |-> 20]
          [] g = "40x40" -> [width |-> 40, height |-> 40, cellSize |-> 15]]

(* Width x height pairs typed into the Add Plot form (inputs with min 1, max 20) *)
Sizes == {<<5, 3>>, <<20, 20>>}

(* Pointer positions of a mousemove, in pixels relative to the grid container,
   less the drag offset: <<e.clientX - containerRect.left - dragOffset.x,
   e.clientY - containerRect.top - dragOffset.y>>; above and left of the grid,
   inside it, right of it, and below and right of it *)
RawPixels == {<<-40, -40>>, <<105, 105>>, <<2000, 105>>, <<2000, 2000>>}

(* Positions the Geolocation API reports (coords.latitude, coords.longitude,
   coords.accuracy in metres): the corners of a square of 0.001 degree at the
   equator, and of one at 60 degrees north *)
GpsFixes ==
    { [lat |-> 0, lng |-> 0, accuracy |-> 5], [lat |-> 0, lng |-> 1, accuracy |-> 50],
      [lat |-> 1, lng |-> 1, accuracy |-> 5], [lat |-> 1, lng |-> 0, accuracy |-> 50] }

NorthernFixes ==
    { [lat |-> 60000 + f.lat, lng |-> f.lng, accuracy |-> f.accuracy] : f \in GpsFixes }

----------------------------------------------------------------------------
(* Helpers *)

Max(a, b) == IF a >= b THEN a ELSE b
Min(a, b) == IF a <= b THEN a ELSE b

(* existingPlots.reduce((max, plot) => Math.max(max, plot.y + plot.height), 0) *)
RECURSIVE maxRowOf(_, _)
maxRowOf(existing, n) ==
    IF n = 0 THEN 0
    ELSE Max(maxRowOf(existing, n - 1), existing[n].y + existing[n].height)

(* The spaced test with the spacing buffer left out *)
HasOverlapSpaced_NoBuffer(x, y, plotWidth, plotHeight, plot) ==
    ~( \/ x >= plot.x + plot.width
       \/ x + plotWidth <= plot.x
       \/ y >= plot.y + plot.height
       \/ y + plotHeight <= plot.y )

(* The spaced test with no gap asked for between rows *)
HasOverlapSpaced_NoRowGap(x, y, plotWidth, plotHeight, plot) ==
    ~( \/ x >= plot.x + plot.width + SPACING
       \/ x + plotWidth <= plot.x - SPACING
       \/ y >= plot.y + plot.height
       \/ y + plotHeight <= plot.y )

(* The spaced scan's test of one existing plot against the candidate (x, y) *)
HasOverlapSpaced(x, y, plotWidth, plotHeight, plot) ==
    LET plotRight == plot.x + plot.width
        plotBottom == plot.y + plot.height
        newPlotRight == x + plotWidth
        newPlotBottom == y + plotHeight
    IN ~( \/ x >= plotRight + SPACING
          \/ newPlotRight <= plot.x - SPACING
          \/ y >= plotBottom + SPACING
          \/ newPlotBottom <= plot.y - SPACING )

(* The dense test with the spacing buffer of the spaced scan *)
HasOverlapDense_Buffered(x, y, plotWidth, plotHeight, plot) ==
    ~( \/ x >= plot.x + plot.width + SPACING
       \/ x + plotWidth <= plot.x - SPACING
       \/ y >= plot.y + plot.height + SPACING
       \/ y + plotHeight <= plot.y - SPACING )

(* The dense test comparing against the existing plot's origin, not its right edge *)
HasOverlapDense_NoWidth(x, y, plotWidth, plotHeight, plot) ==
    ~( \/ x >= plot.x
       \/ x + plotWidth <= plot.x
       \/ y >= plot.y + plot.height
       \/ y + plotHeight <= plot.y )

(* The dense scan's test of one existing plot against the candidate (x, y) *)
HasOverlapDense(x, y, plotWidth, plotHeight, plot) ==
    ~( \/ x >= plot.x + plot.width
       \/ x + plotWidth <= plot.x
       \/ y >= plot.y + plot.height
       \/ y + plotHeight <= plot.y )

(* some(...) that misses the last plot of the list *)
SomeOverlapSpaced_SkipLast(existing, x, y, plotWidth, plotHeight) ==
    \E i \in 1..(Len(existing) - 1) :
        ~( \/ x >= existing[i].x + existing[i].width + SPACING
           \/ x + plotWidth <= existing[i].x - SPACING
           \/ y >= existing[i].y + existing[i].height + SPACING
           \/ y + plotHeight <= existing[i].y - SPACING )

(* existingPlots.some(...) of each scan *)
SomeOverlapSpaced(existing, x, y, plotWidth, plotHeight) ==
    \E i \in 1..Len(existing) : HasOverlapSpaced(x, y, plotWidth, plotHeight, existing[i])

SomeOverlapDense(existing, x, y, plotWidth, plotHeight) ==
    \E i \in 1..Len(existing) : HasOverlapDense(x, y, plotWidth, plotHeight, existing[i])

(* The x limit with the new plot's width left out *)
ScanMaxX_NoWidth(plotWidth) == GRID_MAX_WIDTH - BOUNDARY_MARGIN

(* Upper limits of the two for loops *)
ScanMaxX(plotWidth) == GRID_MAX_WIDTH - plotWidth - BOUNDARY_MARGIN
ScanMaxY(plotHeight) == GRID_MAX_HEIGHT - plotHeight - BOUNDARY_MARGIN

(* An increment that subtracts the spacing: no advance for a plot 1 cell wide *)
SpacedStepX_NoAdvance(plotWidth) == plotWidth - SPACING

(* The increments of the spaced loops: x += plotWidth + SPACING, y += plotHeight + SPACING *)
SpacedStepX(plotWidth) == plotWidth + SPACING

(* A row increment of one cell, as in the dense scan *)
SpacedStepY_Unit(plotHeight) == 1

SpacedStepY(plotHeight) == plotHeight + SPACING

(* What the scans yield when no origin is accepted *)
NotFound == [x |-> 0, y |-> 0, via |-> "none"]

(* The inner for loop of the spaced scan on row y, from column x on:
   x += plotWidth + SPACING until an origin passes the test *)
RECURSIVE spacedRow(_, _, _, _, _)
spacedRow(existing, x, y, plotWidth, plotHeight) ==
    IF x > ScanMaxX(plotWidth) THEN NotFound
    ELSE IF ~SomeOverlapSpaced(existing, x, y, plotWidth, plotHeight)
    THEN [x |-> x, y |-> y, via |-> "spaced"]
    ELSE spacedRow(existing, x + SpacedStepX(plotWidth), y, plotWidth, plotHeight)

(* The outer for loop of the spaced scan, from row y on: y += plotHeight + SPACING *)
RECURSIVE spacedScan(_, _, _, _)
spacedScan(existing, y, plotWidth, plotHeight) ==
    IF y > ScanMaxY(plotHeight) THEN NotFound
    ELSE LET found == spacedRow(existing, BOUNDARY_MARGIN, y, plotWidth, plotHeight)
         IN IF found.via = "spaced" THEN found
            ELSE spacedScan(existing, y + SpacedStepY(plotHeight), plotWidth, plotHeight)

(* The inner for loop of the dense scan on row y, from column x on: x++ *)
RECURSIVE denseRow(_, _, _, _, _)
denseRow(existing, x, y, plotWidth, plotHeight) ==
    IF x > ScanMaxX(plotWidth) THEN NotFound
    ELSE IF ~SomeOverlapDense(existing, x, y, plotWidth, plotHeight)
    THEN [x |-> x, y |-> y, via |-> "dense"]
    ELSE denseRow(existing, x + 1, y, plotWidth, plotHeight)

(* The outer for loop of the dense scan, from row y on: y++ *)
RECURSIVE denseScan(_, _, _, _)
denseScan(existing, y, plotWidth, plotHeight) ==
    IF y > ScanMaxY(plotHeight) THEN NotFound
    ELSE LET found == denseRow(existing, BOUNDARY_MARGIN, y, plotWidth, plotHeight)
         IN IF found.via = "dense" THEN found
            ELSE denseScan(existing, y + 1, plotWidth, plotHeight)

(* A fallback that always answers the top left origin *)
fallbackPosition_AtMargin(existing) ==
    [x |-> BOUNDARY_MARGIN, y |-> BOUNDARY_MARGIN, via |-> "fallback"]

(* The final return statement *)
fallbackPosition(existing) ==
    LET maxRow == maxRowOf(existing, Len(existing))
    IN [x |-> BOUNDARY_MARGIN,
        y |-> Max(BOUNDARY_MARGIN, maxRow + SPACING),
        via |-> "fallback"]

(* The two scans in the other order: the dense scan first *)
getNextPlotPosition_DenseFirst(existing, plotWidth, plotHeight) ==
    LET spaced == spacedScan(existing, BOUNDARY_MARGIN, plotWidth, plotHeight)
        dense == denseScan(existing, BOUNDARY_MARGIN, plotWidth, plotHeight)
    IN IF dense.via = "dense" THEN dense
       ELSE IF spaced.via = "spaced" THEN spaced
       ELSE fallbackPosition(existing)

(* AddPlotModal.getNextPlotPosition for positive plotWidth, plotHeight, on the
   cached list `existing`; `via` records which return statement was taken *)
getNextPlotPosition(existing, plotWidth, plotHeight) ==
    LET spaced == spacedScan(existing, BOUNDARY_MARGIN, plotWidth, plotHeight)
        dense == denseScan(existing, BOUNDARY_MARGIN, plotWidth, plotHeight)
    IN IF spaced.via = "spaced" THEN spaced
       ELSE IF dense.via = "dense" THEN dense
       ELSE fallbackPosition(existing)

(* MemStorage.createPlot: the stored plot gets a fresh id and is appended *)
createPlot(store, insertPlot) ==
    Append(store, [id |-> Len(store) + 1,
                   x |-> insertPlot.x, y |-> insertPlot.y,
                   width |-> insertPlot.width, height |-> insertPlot.height])

(* An update that is refused when the moved plot would cover a cell of another plot *)
updatePlot_RejectOverlap(store, id, newX, newY) ==
    IF \E i, j \in 1..Len(store) :
          /\ store[i].id = id /\ store[j].id # id
          /\ newX < store[j].x + store[j].width /\ store[j].x < newX + store[i].width
          /\ newY < store[j].y + store[j].height /\ store[j].y < newY + store[i].height
    THEN store
    ELSE [i \in 1..Len(store) |->
            IF store[i].id = id
            THEN [store[i] EXCEPT !.x = newX, !.y = newY]
            ELSE store[i]]

(* An update that is applied to every stored plot, not only to the one with the id *)
updatePlot_NoIdFilter(store, id, newX, newY) ==
    [i \in 1..Len(store) |-> [store[i] EXCEPT !.x = newX, !.y = newY]]

(* MemStorage.updatePlot with the update {x, y}: { ...existing, ...plotUpdate } *)
updatePlot(store, id, newX, newY) ==
    IF \E i \in 1..Len(store) : store[i].id = id
    THEN [i \in 1..Len(store) |->
            IF store[i].id = id
            THEN [store[i] EXCEPT !.x = newX, !.y = newY]
            ELSE store[i]]
    ELSE store

(* Math.floor in place of Math.round *)
RoundCells_Floor(px, cellSize) == px \div cellSize

(* Math.round(px / cellSize): the nearest integer, halves rounded up *)
RoundCells(px, cellSize) == (2 * px + cellSize) \div (2 * cellSize)

(* The clamp with the plot's dimension left out of the upper limit *)
SnapAxis_NoDimension(px, cellSize, gridBound, dimension) ==
    LET hi == (gridBound - DRAG_BOUNDARY_MARGIN) * cellSize
        lo == DRAG_BOUNDARY_MARGIN * cellSize
    IN (2 * Max(lo, Min(hi, px)) + cellSize) \div (2 * cellSize)

(* Math.max(BOUNDARY_MARGIN, Math.min(gridBound - dimension - BOUNDARY_MARGIN, raw)),
   then Math.round, for one axis; raw = px / cellSize *)
SnapAxis(px, cellSize, gridBound, dimension) ==
    LET hi == (gridBound - dimension - DRAG_BOUNDARY_MARGIN) * cellSize
        lo == DRAG_BOUNDARY_MARGIN * cellSize
    IN RoundCells(Max(lo, Min(hi, px)), cellSize)

(* The condition under which handleMouseMove calls onMove:
   |snappedX - plot.x| > 0.1 or |snappedY - plot.y| > 0.1, on integers *)
MoveDetected(plot, snappedX, snappedY) ==
    snappedX # plot.x \/ snappedY # plot.y

----------------------------------------------------------------------------
(* Surveyor geometry.  Latitudes and longitudes are in thousandths of a degree,
   lengths in centimetres, areas in square centimetres: the code's floating
   point values, kept to the centimetre. *)

(* Earth's radius in metres *)
R == 6371000

metersPerDegreeLat == 111320

(* Square metres per acre in completeBoundaryWalk *)
squareMetersPerAcre == 4047

Abs(v) == IF v >= 0 THEN v ELSE -v

(* 100 * Math.cos(lat * Math.PI / 180) for the latitude latSum / n, to the
   nearest integer, for the latitudes of the model's fixes: within a hundredth
   of a degree of the equator, or of 60 degrees north *)
CosPercent(latSum, n) == IF latSum < 30000 * n THEN 100 ELSE 50

(* Math.sqrt, rounded down: the largest r in lo..hi with r * r <= v *)
RECURSIVE sqrtFloor(_, _, _)
sqrtFloor(v, lo, hi) ==
    IF lo = hi THEN lo
    ELSE LET mid == (lo + hi + 1) \div 2
         IN IF mid * mid <= v THEN sqrtFloor(v, mid, hi) ELSE sqrtFloor(v, lo, mid - 1)

(* calculateDistance: the haversine distance in centimetres.  For the angles
   of a field boundary (thousandths of a degree) sin t = t and atan2 give
   R * sqrt(dLat^2 + cos(lat1) * cos(lat2) * dLon^2), angles in radians;
   R * PI / 180 is 11119 cm per thousandth of a degree *)
calculateDistance(lat1, lon1, lat2, lon2) ==
    LET arc == ((R \div 1000) * 31416) \div 18000
        dLat == Abs(lat2 - lat1) * arc
        dLon1 == (Abs(lon2 - lon1) * arc * CosPercent(lat1, 1)) \div 100
        dLon2 == (Abs(lon2 - lon1) * arc * CosPercent(lat2, 1)) \div 100
    IN sqrtFloor(dLat * dLat + dLon1 * dLon2, 0, 40000)

(* points.reduce((sum, p) => sum + p.latitude, 0) and the same for longitude *)
RECURSIVE sumLatitude(_, _)
sumLatitude(ps, n) == IF n = 0 THEN 0 ELSE sumLatitude(ps, n - 1) + ps[n].latitude

RECURSIVE sumLongitude(_, _)
sumLongitude(ps, n) == IF n = 0 THEN 0 ELSE sumLongitude(ps, n - 1) + ps[n].longitude

(* cartesianPoints: each point's offset from the mean, in centimetres *)
cartesianPoints(ps) ==
    LET n == Len(ps)
        latSum == sumLatitude(ps, n)
        lonSum == sumLongitude(ps, n)
        cmPerUnitLat == metersPerDegreeLat \div 10
        cmPerUnitLon == (cmPerUnitLat * CosPercent(latSum, n)) \div 100
    IN [i \in 1..n |->
          [x |-> ((n * ps[i].longitude - lonSum) * cmPerUnitLon) \div n,
           y |-> ((n * ps[i].latitude - latSum) * cmPerUnitLat) \div n]]

(* The loop of calculatePolygonArea over i = 0 .. last - 1 (here 1 .. last),
   with j = (i + 1) % length: area += x_i * y_j; area -= x_j * y_i *)
RECURSIVE shoelaceLoop(_, _)
shoelaceLoop(cart, last) ==
    IF last = 0 THEN 0
    ELSE LET j == (last % Len(cart)) + 1
             added == shoelaceLoop(cart, last - 1) + cart[last].x * cart[j].y
         IN added - cart[j].x * cart[last].y

(* The area of the points whose accuracy is 20 m or better only *)
calculatePolygonArea_AccurateOnly(ps) ==
    LET accurate == SelectSeq(ps, LAMBDA p : p.accuracy <= 20)
    IN IF Len(accurate) < 3 THEN 0
       ELSE Abs(shoelaceLoop(cartesianPoints(accurate), Len(accurate))) \div 2

(* The function without its length guard: the means of an empty list are 0 / 0,
   and the result is NaN, written -1 *)
calculatePolygonArea_NoGuard(ps) ==
    IF Len(ps) = 0 THEN -1
    ELSE Abs(shoelaceLoop(cartesianPoints(ps), Len(ps))) \div 2

(* The loop stopping one edge early: the polygon is not closed *)
calculatePolygonArea_OpenPolygon(ps) ==
    IF Len(ps) < 3 THEN 0
    ELSE Abs(shoelaceLoop(cartesianPoints(ps), Len(ps) - 1)) \div 2

(* The halving forgotten *)
calculatePolygonArea_NoHalf(ps) ==
    IF Len(ps) < 3 THEN 0
    ELSE Abs(shoelaceLoop(cartesianPoints(ps), Len(ps)))

(* calculatePolygonArea, in square centimetres *)
calculatePolygonArea(ps) ==
    IF Len(ps) < 3 THEN 0
    ELSE Abs(shoelaceLoop(cartesianPoints(ps), Len(ps))) \div 2

(* The loop of calculatePerimeter over i = 0 .. last - 1 (here 1 .. last),
   with next = points[(i + 1) % length] *)
RECURSIVE perimeterLoop(_, _)
perimeterLoop(ps, last) ==
    IF last = 0 THEN 0
    ELSE LET current == ps[last]
             next == ps[(last % Len(ps)) + 1]
         IN perimeterLoop(ps, last - 1)
              + calculateDistance(current.latitude, current.longitude,
                                  next.latitude, next.longitude)

(* The loop stopping one edge early: the last point is not joined to the first *)
calculatePerimeter_OpenPath(ps) ==
    IF Len(ps) < 2 THEN 0 ELSE perimeterLoop(ps, Len(ps) - 1)

(* calculatePerimeter, in centimetres *)
calculatePerimeter(ps) ==
    IF Len(ps) < 2 THEN 0 ELSE perimeterLoop(ps, Len(ps))

----------------------------------------------------------------------------
(* State machine of the layout page *)

NoMove == [id |-> 0, px |-> 0, py |-> 0, reported |-> FALSE]

(* SurveyorTool's useState and useRef initial values *)
SurveyInit ==
    /\ mounted = FALSE
    /\ gpsSupported = FALSE
    /\ positionRequest = FALSE
    /\ currentLocation = <<>>
    /\ isWalking = FALSE
    /\ currentWalk = <<>>
    /\ fieldMeasurements = <<>>
    /\ boundaryPoints = <<>>
    /\ watchIdRef = <<>>
    /\ watches = {}
    /\ alert = "none"

(* No direct call of the measuring functions *)
GeometryIdle ==
    /\ points = <<>>
    /\ area = <<>>
    /\ perimeter = <<>>

(* DraggablePlot's useState initial value; no listener, the button is up *)
DragIdle ==
    /\ isDragging = FALSE
    /\ dragListeners = 0
    /\ buttonDown = FALSE

Init ==
    /\ plots = <<>>
    /\ existingPlots = <<>>
    /\ gridSize = "30x30"
    /\ placement = <<>>
    /\ lastMove = NoMove
    /\ moves = 0
    /\ pc = "idle"
    /\ sw = 0 /\ sh = 0 /\ sx = 0 /\ sy = 0
    /\ result = [x |-> 0, y |-> 0, via |-> "none"]
    /\ SurveyInit
    /\ GeometryIdle
    /\ DragIdle

(* Every stored plot is still where getNextPlotPosition put it *)
Undragged(store, hist) ==
    \A i \in 1..Len(store) : store[i].x = hist[i].x /\ store[i].y = hist[i].y

(* AddPlotModal.handleSubmit, the POST route and MemStorage.createPlot *)
handleSubmit(width, height) ==
    /\ Len(plots) < MaxPlots
    /\ LET position == getNextPlotPosition(existingPlots, width, height)
       IN /\ plots' = createPlot(plots, [x |-> position.x, y |-> position.y,
                                         width |-> width, height |-> height])
          /\ placement' = Append(placement,
                [x |-> position.x, y |-> position.y, via |-> position.via,
                 inSequence |-> existingPlots = plots /\ Undragged(plots, placement)])
    /\ UNCHANGED <<existingPlots, gridSize, lastMove, moves, scanVars, surveyVars, geometryVars, dragVars>>

(* The refetch that invalidateQueries triggers: the cache takes the stored list *)
Refetch ==
    /\ existingPlots # plots
    /\ existingPlots' = plots
    /\ UNCHANGED <<plots, gridSize, placement, lastMove, moves, scanVars, surveyVars, geometryVars, dragVars>>

(* GridDesigner: Select onValueChange={setGridSize}; GridDesigner and its
   plots render again, and a plot rendered with isDragging true adds a pair of
   listeners *)
setGridSize(g) ==
    /\ g # gridSize
    /\ gridSize' = g
    /\ dragListeners' = IF isDragging THEN dragListeners + 1 ELSE dragListeners
    /\ UNCHANGED <<isDragging, buttonDown>>
    /\ UNCHANGED <<plots, existingPlots, placement, lastMove, moves, scanVars, surveyVars, geometryVars>>

(* DraggablePlot.handleMouseMove of the i-th rendered plot, called as a
   listener of the document, with GridDesigner.handlePlotMove, the PUT route
   and MemStorage.updatePlot; the mutation renders GridDesigner and its plots
   again, and a plot rendered with isDragging true adds a pair of listeners *)
handleMouseMove(i, px, py) ==
    /\ moves < MaxMoves
    /\ i \in 1..Len(existingPlots)
    /\ LET plot == existingPlots[i]
           cfg == gridSizeMap[gridSize]
           snappedX == SnapAxis(px, cfg.cellSize, cfg.width, plot.width)
           snappedY == SnapAxis(py, cfg.cellSize, cfg.height, plot.height)
           onMove == MoveDetected(plot, snappedX, snappedY)
       IN /\ plots' = IF onMove THEN updatePlot(plots, plot.id, snappedX, snappedY)
                      ELSE plots
          /\ lastMove' = [id |-> plot.id, px |-> px, py |-> py, reported |-> onMove]
          /\ dragListeners' = IF onMove /\ isDragging THEN dragListeners + 1
                               ELSE dragListeners
    /\ moves' = moves + 1
    /\ UNCHANGED <<isDragging, buttonDown>>
    /\ UNCHANGED <<existingPlots, gridSize, placement, scanVars, surveyVars, geometryVars>>

Next ==
    \/ \E s \in Sizes : handleSubmit(s[1], s[2])
    \/ Refetch
    \/ \E g \in DOMAIN gridSizeMap : setGridSize(g)
    \/ \E i \in 1..MaxPlots, raw \in RawPixels : handleMouseMove(i, raw[1], raw[2])

Spec == Init /\ [][Next]_vars

(* The layout page when plots are only added, never dragged *)
NextPlacement ==
    \/ \E s \in Sizes : handleSubmit(s[1], s[2])
    \/ Refetch
    \/ \E g \in DOMAIN gridSizeMap : setGridSize(g)

SpecPlacement == Init /\ [][NextPlacement]_vars

----------------------------------------------------------------------------
(* A drag of the plot of a farm that holds one plot: the mouse button, the
   component's isDragging and the listeners it has on the document *)

DragInit ==
    /\ plots = << [id |-> 1, x |-> 1, y |-> 1, width |-> 5, height |-> 3] >>
    /\ existingPlots = plots
    /\ gridSize = "30x30"
    /\ placement = << [x |-> 1, y |-> 1, via |-> "spaced", inSequence |-> TRUE] >>
    /\ lastMove = NoMove
    /\ moves = 0
    /\ pc = "idle"
    /\ sw = 0 /\ sh = 0 /\ sx = 0 /\ sy = 0
    /\ result = [x |-> 0, y |-> 0, via |-> "none"]
    /\ SurveyInit
    /\ GeometryIdle
    /\ DragIdle

(* DraggablePlot.handleMouseDown on the plot (not on its delete button):
   setIsDragging(true) and setDragOffset, and the render that follows, which
   adds a pair of listeners and sets the timeout that removes them *)
handleMouseDown ==
    /\ ~buttonDown
    /\ buttonDown' = TRUE
    /\ isDragging' = TRUE
    /\ dragListeners' = dragListeners + 1
    /\ UNCHANGED <<layoutVars, scanVars, surveyVars, geometryVars>>

(* The callback of setTimeout(..., 0) of one render: removeEventListener of
   the pair of listeners that render added *)
removeListeners ==
    /\ dragListeners > 0
    /\ dragListeners' = dragListeners - 1
    /\ UNCHANGED <<isDragging, buttonDown>>
    /\ UNCHANGED <<layoutVars, scanVars, surveyVars, geometryVars>>

(* The mouseup event on the document: handleMouseUp runs, setIsDragging(false),
   if a render has it registered; the render that follows adds no listener *)
documentMouseUp ==
    /\ buttonDown
    /\ buttonDown' = FALSE
    /\ isDragging' = IF dragListeners > 0 THEN FALSE ELSE isDragging
    /\ UNCHANGED dragListeners
    /\ UNCHANGED <<layoutVars, scanVars, surveyVars, geometryVars>>

(* The mousemove event on the document reaches handleMouseMove if a render has
   it registered *)
documentMouseMove(px, py) ==
    /\ dragListeners > 0
    /\ handleMouseMove(1, px, py)

(* The model lets at most MaxListeners renders wait for their timeout *)
ListenersLeft == dragListeners < MaxListeners

DragNext ==
    \/ (ListenersLeft /\ handleMouseDown)
    \/ removeListeners
    \/ documentMouseUp
    \/ \E raw \in RawPixels : documentMouseMove(raw[1], raw[2])
    \/ (ListenersLeft /\ \E g \in DOMAIN gridSizeMap : setGridSize(g))

SpecDrag == DragInit /\ [][DragNext]_vars

----------------------------------------------------------------------------
(* getNextPlotPosition run one loop test at a time, for any integer
   plotWidth (sw) and plotHeight (sh), on the list existingPlots *)

(* Plot lists a farm can hold: empty, one plot, a plot filling the scanned
   region, and that plot with a second one the final fallback put below it *)
ScanLists ==
    { <<>>,
      << [id |-> 1, x |-> 1, y |-> 1, width |-> 5, height |-> 3] >>,
      << [id |-> 1, x |-> 1, y |-> 1, width |-> 20, height |-> 20] >>,
      << [id |-> 1, x |-> 1, y |-> 1, width |-> 20, height |-> 20],
         [id |-> 2, x |-> 1, y |-> 22, width |-> 20, height |-> 20] >> }

(* Arguments of a call: plots that fit, a plot as large as the scanned region,
   one larger than the grid, and dimensions that are not positive *)
ScanDims == { <<1, 1>>, <<5, 3>>, <<20, 20>>, <<28, 28>>, <<31, 31>>,
              <<0, 3>>, <<5, 0>>, <<29, -1>> }

ScanInit ==
    /\ existingPlots \in ScanLists
    /\ plots = existingPlots
    /\ gridSize = "30x30"
    /\ placement = <<>>
    /\ lastMove = NoMove
    /\ moves = 0
    /\ \E d \in ScanDims : sw = d[1] /\ sh = d[2]
    /\ pc = "spacedY"
    /\ sx = BOUNDARY_MARGIN /\ sy = BOUNDARY_MARGIN
    /\ result = NotFound
    /\ SurveyInit
    /\ GeometryIdle
    /\ DragIdle

(* for (let y = ...; y <= GRID_MAX_HEIGHT - plotHeight - BOUNDARY_MARGIN; ...): the test *)
spacedOuter ==
    /\ pc = "spacedY"
    /\ IF sy <= ScanMaxY(sh)
       THEN pc' = "spacedX" /\ sx' = BOUNDARY_MARGIN /\ sy' = sy
       ELSE pc' = "denseY" /\ sx' = sx /\ sy' = BOUNDARY_MARGIN
    /\ UNCHANGED <<layoutVars, surveyVars, geometryVars, dragVars, sw, sh, result>>

(* One pass of the inner spaced loop: its test, the overlap check and the
   return or the increment; on exit, the outer loop's increment *)
spacedInner ==
    /\ pc = "spacedX"
    /\ IF sx <= ScanMaxX(sw)
       THEN IF ~SomeOverlapSpaced(existingPlots, sx, sy, sw, sh)
            THEN /\ result' = [x |-> sx, y |-> sy, via |-> "spaced"]
                 /\ pc' = "done"
                 /\ UNCHANGED <<sx, sy>>
            ELSE /\ sx' = sx + SpacedStepX(sw)
                 /\ UNCHANGED <<pc, sy, result>>
       ELSE /\ sy' = sy + SpacedStepY(sh)
            /\ pc' = "spacedY"
            /\ UNCHANGED <<sx, result>>
    /\ UNCHANGED <<layoutVars, surveyVars, geometryVars, dragVars, sw, sh>>

(* The test of the outer dense loop *)
denseOuter ==
    /\ pc = "denseY"
    /\ IF sy <= ScanMaxY(sh)
       THEN pc' = "denseX" /\ sx' = BOUNDARY_MARGIN
       ELSE pc' = "fallback" /\ sx' = sx
    /\ UNCHANGED <<layoutVars, surveyVars, geometryVars, dragVars, sw, sh, sy, result>>

(* One pass of the inner dense loop *)
denseInner ==
    /\ pc = "denseX"
    /\ IF sx <= ScanMaxX(sw)
       THEN IF ~SomeOverlapDense(existingPlots, sx, sy, sw, sh)
            THEN /\ result' = [x |-> sx, y |-> sy, via |-> "dense"]
                 /\ pc' = "done"
                 /\ UNCHANGED <<sx, sy>>
            ELSE /\ sx' = sx + 1
                 /\ UNCHANGED <<pc, sy, result>>
       ELSE /\ sy' = sy + 1
            /\ pc' = "denseY"
            /\ UNCHANGED <<sx, result>>
    /\ UNCHANGED <<layoutVars, surveyVars, geometryVars, dragVars, sw, sh>>

(* The final return statement *)
fallbackReturn ==
    /\ pc = "fallback"
    /\ result' = fallbackPosition(existingPlots)
    /\ pc' = "done"
    /\ UNCHANGED <<layoutVars, surveyVars, geometryVars, dragVars, sw, sh, sx, sy>>

ScanNext ==
    \/ spacedOuter
    \/ spacedInner
    \/ denseOuter
    \/ denseInner
    \/ fallbackReturn

(* The function runs synchronously: a loop that can take a step takes it *)
SpecScan == ScanInit /\ [][ScanNext]_vars /\ WF_vars(ScanNext)

(* The step-by-step run returns what getNextPlotPosition is defined to return *)
ScanAgrees ==
    (pc = "done" /\ sw > 0 /\ sh > 0) => result = getNextPlotPosition(existingPlots, sw, sh)

----------------------------------------------------------------------------
(* State machine of the field boundary surveyor (SurveyorTool).  The clock
   values of a point and of a measurement (id, timestamp, completedAt) are
   left out. *)

(* addBoundaryPoint's newPoint for a location, marked as corner number corner *)
newPoint(location, corner) ==
    [latitude |-> location.lat, longitude |-> location.lng,
     label |-> corner, accuracy |-> location.accuracy]

(* Ids navigator.geolocation.watchPosition returns (a long) *)
WatchIds == {0, 1}

(* area / 4047, in thousandths of an acre, of an area in square centimetres *)
acresOf(squareCm) == squareCm \div (10 * squareMetersPerAcre)

(* The mount effect: setGpsSupported(true) and a getCurrentPosition request
   when the browser has navigator.geolocation *)
mountEffect(hasGeolocation) ==
    /\ ~mounted
    /\ mounted' = TRUE
    /\ gpsSupported' = hasGeolocation
    /\ positionRequest' = hasGeolocation
    /\ alert' = "none"
    /\ UNCHANGED <<currentLocation, isWalking, currentWalk, fieldMeasurements,
                   boundaryPoints, watchIdRef, watches>>
    /\ UNCHANGED <<layoutVars, scanVars, geometryVars, dragVars>>

(* Success callback of getCurrentPosition *)
getCurrentPositionSuccess(fix) ==
    /\ positionRequest
    /\ positionRequest' = FALSE
    /\ currentLocation' = <<fix>>
    /\ alert' = "none"
    /\ UNCHANGED <<mounted, gpsSupported, isWalking, currentWalk, fieldMeasurements,
                   boundaryPoints, watchIdRef, watches>>
    /\ UNCHANGED <<layoutVars, scanVars, geometryVars, dragVars>>

(* Error callback of getCurrentPosition: console.log only *)
getCurrentPositionError ==
    /\ positionRequest
    /\ positionRequest' = FALSE
    /\ alert' = "none"
    /\ UNCHANGED <<mounted, gpsSupported, currentLocation, isWalking, currentWalk,
                   fieldMeasurements, boundaryPoints, watchIdRef, watches>>
    /\ UNCHANGED <<layoutVars, scanVars, geometryVars, dragVars>>

(* Success callback of watchPosition, while a watch is registered *)
watchPositionSuccess(fix) ==
    /\ mounted /\ watches # {}
    /\ currentLocation # <<fix>>
    /\ currentLocation' = <<fix>>
    /\ alert' = "none"
    /\ UNCHANGED <<mounted, gpsSupported, positionRequest, isWalking, currentWalk,
                   fieldMeasurements, boundaryPoints, watchIdRef, watches>>
    /\ UNCHANGED <<layoutVars, scanVars, geometryVars, dragVars>>

(* Error callback of watchPosition *)
watchPositionError ==
    /\ mounted /\ watches # {}
    /\ alert' = "GPS tracking error"
    /\ UNCHANGED <<mounted, gpsSupported, positionRequest, currentLocation, isWalking,
                   currentWalk, fieldMeasurements, boundaryPoints, watchIdRef, watches>>
    /\ UNCHANGED <<layoutVars, scanVars, geometryVars, dragVars>>

(* A handler without the test of gpsSupported *)
startBoundaryWalk_NoGpsCheck ==
    /\ mounted /\ ~isWalking
    /\ isWalking' = TRUE
    /\ currentWalk' = <<>>
    /\ \E id \in WatchIds \ watches :
          /\ watchIdRef' = <<id>>
          /\ watches' = watches \cup {id}
    /\ alert' = "none"
    /\ UNCHANGED <<mounted, gpsSupported, positionRequest, currentLocation,
                   fieldMeasurements, boundaryPoints>>
    /\ UNCHANGED <<layoutVars, scanVars, geometryVars, dragVars>>

(* startBoundaryWalk; its button is rendered while not walking *)
startBoundaryWalk ==
    /\ mounted /\ ~isWalking
    /\ IF ~gpsSupported
       THEN /\ alert' = "GPS is not available"
            /\ UNCHANGED <<isWalking, currentWalk, watchIdRef, watches>>
       ELSE /\ isWalking' = TRUE
            /\ currentWalk' = <<>>
            /\ \E id \in WatchIds \ watches :
                  /\ watchIdRef' = <<id>>
                  /\ watches' = watches \cup {id}
            /\ alert' = "none"
    /\ UNCHANGED <<mounted, gpsSupported, positionRequest, currentLocation,
                   fieldMeasurements, boundaryPoints>>
    /\ UNCHANGED <<layoutVars, scanVars, geometryVars, dragVars>>

(* A handler that puts the new point in front of the walk *)
addBoundaryPoint_Prepend ==
    /\ mounted /\ isWalking
    /\ IF currentLocation = <<>>
       THEN /\ alert' = "Current location not available"
            /\ UNCHANGED currentWalk
       ELSE /\ currentWalk' =
                  <<newPoint(currentLocation[1], Len(currentWalk) + 1)>> \o currentWalk
            /\ alert' = "none"
    /\ UNCHANGED <<mounted, gpsSupported, positionRequest, currentLocation, isWalking,
                   fieldMeasurements, boundaryPoints, watchIdRef, watches>>
    /\ UNCHANGED <<layoutVars, scanVars, geometryVars, dragVars>>

(* addBoundaryPoint; its button is rendered while walking *)
addBoundaryPoint ==
    /\ mounted /\ isWalking
    /\ IF currentLocation = <<>>
       THEN /\ alert' = "Current location not available"
            /\ UNCHANGED currentWalk
       ELSE /\ currentWalk' =
                  Append(currentWalk, newPoint(currentLocation[1], Len(currentWalk) + 1))
            /\ alert' = "none"
    /\ UNCHANGED <<mounted, gpsSupported, positionRequest, currentLocation, isWalking,
                   fieldMeasurements, boundaryPoints, watchIdRef, watches>>
    /\ UNCHANGED <<layoutVars, scanVars, geometryVars, dragVars>>

(* if (watchIdRef.current) { clearWatch(watchIdRef.current); watchIdRef.current = null } *)
clearWatchIfSet ==
    IF watchIdRef # <<>> /\ watchIdRef[1] # 0
    THEN /\ watches' = watches \ {watchIdRef[1]}
         /\ watchIdRef' = <<>>
    ELSE UNCHANGED <<watchIdRef, watches>>

(* A handler without the test for 3 points *)
completeBoundaryWalk_NoMinimum ==
    /\ mounted /\ isWalking
    /\ LET measurement ==
              [points |-> currentWalk,
               area |-> [squareMeters |-> calculatePolygonArea(currentWalk),
                         acres |-> acresOf(calculatePolygonArea(currentWalk))],
               perimeter |-> calculatePerimeter(currentWalk),
               label |-> Len(fieldMeasurements) + 1]
       IN /\ fieldMeasurements' = Append(fieldMeasurements, measurement)
          /\ boundaryPoints' = boundaryPoints \o currentWalk
          /\ clearWatchIfSet
          /\ isWalking' = FALSE
          /\ currentWalk' = <<>>
          /\ alert' = "none"
    /\ UNCHANGED <<mounted, gpsSupported, positionRequest, currentLocation>>
    /\ UNCHANGED <<layoutVars, scanVars, geometryVars, dragVars>>

(* A handler that stores the new measurement in place of the stored ones *)
completeBoundaryWalk_ReplaceStored ==
    /\ mounted /\ isWalking
    /\ IF Len(currentWalk) < 3
       THEN /\ alert' = "You need at least 3 points"
            /\ UNCHANGED <<isWalking, currentWalk, fieldMeasurements, boundaryPoints,
                           watchIdRef, watches>>
       ELSE LET area_ == calculatePolygonArea(currentWalk)
                perimeter_ == calculatePerimeter(currentWalk)
                measurement ==
                    [points |-> currentWalk,
                     area |-> [squareMeters |-> area_, acres |-> acresOf(area_)],
                     perimeter |-> perimeter_,
                     label |-> Len(fieldMeasurements) + 1]
            IN /\ fieldMeasurements' = <<measurement>>
               /\ boundaryPoints' = boundaryPoints \o currentWalk
               /\ clearWatchIfSet
               /\ isWalking' = FALSE
               /\ currentWalk' = <<>>
               /\ alert' = "none"
    /\ UNCHANGED <<mounted, gpsSupported, positionRequest, currentLocation>>
    /\ UNCHANGED <<layoutVars, scanVars, geometryVars, dragVars>>

(* A handler that puts the points of the walk before the stored boundary points *)
completeBoundaryWalk_PointsInFront ==
    /\ mounted /\ isWalking
    /\ IF Len(currentWalk) < 3
       THEN /\ alert' = "You need at least 3 points"
            /\ UNCHANGED <<isWalking, currentWalk, fieldMeasurements, boundaryPoints,
                           watchIdRef, watches>>
       ELSE LET area_ == calculatePolygonArea(currentWalk)
                perimeter_ == calculatePerimeter(currentWalk)
                measurement ==
                    [points |-> currentWalk,
                     area |-> [squareMeters |-> area_, acres |-> acresOf(area_)],
                     perimeter |-> perimeter_,
                     label |-> Len(fieldMeasurements) + 1]
            IN /\ fieldMeasurements' = Append(fieldMeasurements, measurement)
               /\ boundaryPoints' = currentWalk \o boundaryPoints
               /\ clearWatchIfSet
               /\ isWalking' = FALSE
               /\ currentWalk' = <<>>
               /\ alert' = "none"
    /\ UNCHANGED <<mounted, gpsSupported, positionRequest, currentLocation>>
    /\ UNCHANGED <<layoutVars, scanVars, geometryVars, dragVars>>

(* completeBoundaryWalk; its button is rendered while walking *)
completeBoundaryWalk ==
    /\ mounted /\ isWalking
    /\ IF Len(currentWalk) < 3
       THEN /\ alert' = "You need at least 3 points"
            /\ UNCHANGED <<isWalking, currentWalk, fieldMeasurements, boundaryPoints,
                           watchIdRef, watches>>
       ELSE LET area_ == calculatePolygonArea(currentWalk)
                perimeter_ == calculatePerimeter(currentWalk)
                measurement ==
                    [points |-> currentWalk,
                     area |-> [squareMeters |-> area_, acres |-> acresOf(area_)],
                     perimeter |-> perimeter_,
                     label |-> Len(fieldMeasurements) + 1]
            IN /\ fieldMeasurements' = Append(fieldMeasurements, measurement)
               /\ boundaryPoints' = boundaryPoints \o currentWalk
               /\ clearWatchIfSet
               /\ isWalking' = FALSE
               /\ currentWalk' = <<>>
               /\ alert' = "none"
    /\ UNCHANGED <<mounted, gpsSupported, positionRequest, currentLocation>>
    /\ UNCHANGED <<layoutVars, scanVars, geometryVars, dragVars>>

(* cancelBoundaryWalk; its button is rendered while walking *)
cancelBoundaryWalk ==
    /\ mounted /\ isWalking
    /\ clearWatchIfSet
    /\ isWalking' = FALSE
    /\ currentWalk' = <<>>
    /\ alert' = "none"
    /\ UNCHANGED <<mounted, gpsSupported, positionRequest, currentLocation,
                   fieldMeasurements, boundaryPoints>>
    /\ UNCHANGED <<layoutVars, scanVars, geometryVars, dragVars>>

(* clearAllMeasurements; its button is always rendered *)
clearAllMeasurements ==
    /\ mounted
    /\ boundaryPoints' = <<>>
    /\ fieldMeasurements' = <<>>
    /\ currentWalk' = <<>>
    /\ alert' = "none"
    /\ UNCHANGED <<mounted, gpsSupported, positionRequest, currentLocation, isWalking,
                   watchIdRef, watches>>
    /\ UNCHANGED <<layoutVars, scanVars, geometryVars, dragVars>>

(* The cleanup of the mount effect, run when the component is unmounted: the
   watch is cleared if watchIdRef.current is set, and the component's state is
   gone; a later mount starts from the initial values *)
unmountCleanup ==
    /\ mounted
    /\ watches' = IF watchIdRef # <<>> /\ watchIdRef[1] # 0
                  THEN watches \ {watchIdRef[1]} ELSE watches
    /\ mounted' = FALSE
    /\ gpsSupported' = FALSE
    /\ positionRequest' = FALSE
    /\ currentLocation' = <<>>
    /\ isWalking' = FALSE
    /\ currentWalk' = <<>>
    /\ fieldMeasurements' = <<>>
    /\ boundaryPoints' = <<>>
    /\ watchIdRef' = <<>>
    /\ alert' = "none"
    /\ UNCHANGED <<layoutVars, scanVars, geometryVars, dragVars>>

(* The model marks at most MaxCorners corners between two Clear All *)
CornersLeft == Len(boundaryPoints) + Len(currentWalk) < MaxCorners

SurveyNext ==
    \/ \E hasGeolocation \in BOOLEAN : mountEffect(hasGeolocation)
    \/ \E fix \in GpsFixes : getCurrentPositionSuccess(fix)
    \/ getCurrentPositionError
    \/ \E fix \in GpsFixes : watchPositionSuccess(fix)
    \/ watchPositionError
    \/ startBoundaryWalk
    \/ (CornersLeft /\ addBoundaryPoint)
    \/ completeBoundaryWalk
    \/ cancelBoundaryWalk
    \/ clearAllMeasurements
    \/ unmountCleanup

SpecSurvey == Init /\ [][SurveyNext]_vars

(* The surveyor over several fields: the same handlers, with positions reported
   at the corners of a triangle and room for two walks to be completed *)
TriangleFixes == { f \in GpsFixes : <<f.lat, f.lng>> # <<0, 1>> }

(* At most MaxCorners corners in a walk and MaxFieldCorners between two Clear All *)
FieldCornersLeft ==
    /\ Len(currentWalk) < MaxCorners
    /\ Len(boundaryPoints) + Len(currentWalk) < MaxFieldCorners

FieldsNext ==
    \/ \E hasGeolocation \in BOOLEAN : mountEffect(hasGeolocation)
    \/ \E fix \in TriangleFixes : getCurrentPositionSuccess(fix)
    \/ getCurrentPositionError
    \/ \E fix \in TriangleFixes : watchPositionSuccess(fix)
    \/ watchPositionError
    \/ startBoundaryWalk
    \/ (FieldCornersLeft /\ addBoundaryPoint)
    \/ completeBoundaryWalk
    \/ cancelBoundaryWalk
    \/ clearAllMeasurements
    \/ unmountCleanup

SpecFields == Init /\ [][FieldsNext]_vars

----------------------------------------------------------------------------
(* The two measuring functions called directly on a list of boundary points *)

(* The point lists of 0 to MaxCorners corners marked at the given fixes *)
PointLists(fixes) ==
    UNION { { [i \in 1..k |-> newPoint(f[i], i)] : f \in [1..k -> fixes] } : k \in 0..MaxCorners }

GeometryInit ==
    /\ plots = <<>>
    /\ existingPlots = <<>>
    /\ gridSize = "30x30"
    /\ placement = <<>>
    /\ lastMove = NoMove
    /\ moves = 0
    /\ pc = "idle"
    /\ sw = 0 /\ sh = 0 /\ sx = 0 /\ sy = 0
    /\ result = NotFound
    /\ SurveyInit
    /\ points \in PointLists(GpsFixes) \cup PointLists(NorthernFixes)
    /\ area = <<>>
    /\ perimeter = <<>>
    /\ DragIdle

(* const area = calculatePolygonArea(points) *)
callPolygonArea ==
    /\ area = <<>>
    /\ area' = <<calculatePolygonArea(points)>>
    /\ UNCHANGED <<layoutVars, scanVars, surveyVars, dragVars, points, perimeter>>

(* const perimeter = calculatePerimeter(points) *)
callPerimeter ==
    /\ perimeter = <<>>
    /\ perimeter' = <<calculatePerimeter(points)>>
    /\ UNCHANGED <<layoutVars, scanVars, surveyVars, dragVars, points, area>>

GeometryNext == callPolygonArea \/ callPerimeter

SpecGeometry == GeometryInit /\ [][GeometryNext]_vars

----------------------------------------------------------------------------
(* Vocabulary of the properties *)

Scans == {"spaced", "dense"}

(* Two rectangles have a grid cell in common *)
ShareCell(a, b) ==
    /\ a.x < b.x + b.width /\ b.x < a.x + a.width
    /\ a.y < b.y + b.height /\ b.y < a.y + a.height

(* A rectangle grown by k cells on all four sides *)
Expand(r, k) ==
    [x |-> r.x - k, y |-> r.y - k, width |-> r.width + 2 * k, height |-> r.height + 2 * k]

(* The i-th created plot, where getNextPlotPosition put it *)
PlacedRect(i) ==
    [x |-> placement[i].x, y |-> placement[i].y,
     width |-> plots[i].width, height |-> plots[i].height]

(* The rectangle lies inside [margin, bound - dimension - margin] on both axes *)
InsideGrid(r, gridWidth, gridHeight, margin) ==
    /\ margin <= r.x /\ r.x + r.width <= gridWidth - margin
    /\ margin <= r.y /\ r.y + r.height <= gridHeight - margin

(* The stored plot with the given id *)
PlotById(store, id) == store[CHOOSE i \in 1..Len(store) : store[i].id = id]

(* The i-th and j-th plots were both placed by the spaced scan, each call
   seeing all plots placed before it, none of them dragged *)
SpacedPair(i, j) ==
    /\ placement[i].via = "spaced" /\ placement[i].inSequence
    /\ placement[j].via = "spaced" /\ placement[j].inSequence

(* This step is a handleSubmit: a plot was created *)
Submitted == Len(plots') = Len(plots) + 1

(* This step is a handleMouseMove *)
Moved == moves' = moves + 1

----------------------------------------------------------------------------
(* C1 as stated: for plots inserted one at a time, each at the position
   its spaced scan returned, no two placed rectangles intersect once each of
   them is expanded by the 1-cell spacing buffer on all sides. *)
C1_BothBuffersDisjoint ==
    \A i, j \in 1..Len(placement) :
        (i < j /\ SpacedPair(i, j)) =>
            ~ShareCell(Expand(PlacedRect(i), SPACING), Expand(PlacedRect(j), SPACING))

(* C1 amended: for plots inserted one at a time, each at the position its
   spaced scan returned, no placed rectangle intersects another placed
   rectangle expanded by the 1-cell spacing buffer on all sides: any two are
   at least 1 cell apart (the buffers of two plots may overlap). *)
C1_OneBufferDisjoint ==
    \A i, j \in 1..Len(placement) :
        (i < j /\ SpacedPair(i, j)) =>
            /\ ~ShareCell(Expand(PlacedRect(i), SPACING), PlacedRect(j))
            /\ ~ShareCell(PlacedRect(i), Expand(PlacedRect(j), SPACING))

(* Three plots of varying sizes, all placed by the spaced scan in sequence *)
C1_Witness ==
    /\ Len(placement) = 3
    /\ \A i \in 1..3 : placement[i].via = "spaced" /\ placement[i].inSequence
    /\ plots[1].width # plots[2].width

(* C2 as stated: every position getNextPlotPosition returns, on any of its
   three paths, keeps the new rectangle inside
   [margin, grid - dimension - margin] of the 30x30 grid on both axes. *)
C2_AllPathsInside ==
    \A i \in 1..Len(placement) :
        InsideGrid(PlacedRect(i), GRID_MAX_WIDTH, GRID_MAX_HEIGHT, BOUNDARY_MARGIN)

(* C2 amended: every position returned by the spaced scan or by the dense
   scan keeps the new rectangle inside [margin, grid - dimension - margin] on
   both axes; the final fallback guarantees only x = margin and y >= margin. *)
C2_ScanPathsInside ==
    \A i \in 1..Len(placement) :
        /\ placement[i].via \in Scans =>
              InsideGrid(PlacedRect(i), GRID_MAX_WIDTH, GRID_MAX_HEIGHT, BOUNDARY_MARGIN)
        /\ placement[i].via = "fallback" =>
              placement[i].x = BOUNDARY_MARGIN /\ placement[i].y >= BOUNDARY_MARGIN

(* A farm whose three plots were placed by the three paths *)
C2_Witness ==
    /\ \E i \in 1..Len(placement) : placement[i].via = "spaced"
    /\ \E i \in 1..Len(placement) : placement[i].via = "dense"
    /\ \E i \in 1..Len(placement) : placement[i].via = "fallback"

(* The bounds handleMouseMove is said to keep, for the moved plot on the
   selected grid *)
DragInside(p, cfg) ==
    InsideGrid(p, cfg.width, cfg.height, DRAG_BOUNDARY_MARGIN)

(* C3 as stated: every position handleMouseMove reports keeps the plot inside
   [margin, grid - dimension - margin] on both axes, for every raw pointer
   position, every plot size and every selectable grid size. *)
C3_DragAlwaysInside ==
    [][ (Moved /\ lastMove'.reported) =>
            DragInside(PlotById(plots', lastMove'.id), gridSizeMap[gridSize]) ]_vars

(* C3 amended: every position handleMouseMove reports has x >= margin and
   y >= margin; it has x + width <= gridWidth - margin whenever the plot's
   width is at most gridWidth - 2 * margin, and y + height <= gridHeight -
   margin whenever its height is at most gridHeight - 2 * margin; a larger
   plot is reported at the margin on that axis. *)
C3_DragInsideWhenFits ==
    [][ (Moved /\ lastMove'.reported) =>
            LET p == PlotById(plots', lastMove'.id)
                cfg == gridSizeMap[gridSize]
                m == DRAG_BOUNDARY_MARGIN
            IN /\ m <= p.x /\ m <= p.y
               /\ IF p.width <= cfg.width - 2 * m
                  THEN p.x + p.width <= cfg.width - m ELSE p.x = m
               /\ IF p.height <= cfg.height - 2 * m
                  THEN p.y + p.height <= cfg.height - m ELSE p.y = m ]_vars

(* A reported drag that the clamp stopped at the right and bottom limits of
   the selected grid *)
C3_Witness ==
    /\ lastMove.reported
    /\ LET p == PlotById(plots, lastMove.id)
           cfg == gridSizeMap[gridSize]
       IN /\ p.x + p.width = cfg.width - DRAG_BOUNDARY_MARGIN
          /\ p.y + p.height = cfg.height - DRAG_BOUNDARY_MARGIN
          /\ p.x > DRAG_BOUNDARY_MARGIN

(* C4: for positive width and height the position getNextPlotPosition returns
   has x >= 0 and y >= 0, and when the spaced or the dense scan returned it the
   new rectangle shares no grid cell with any plot of the list it scanned. *)
C4_NonNegativeAndFree ==
    [][ Submitted =>
            LET n == Len(plots')
                new == plots'[n]
            IN /\ placement'[n].x >= 0 /\ placement'[n].y >= 0
               /\ new.x = placement'[n].x /\ new.y = placement'[n].y
               /\ placement'[n].via \in Scans =>
                     \A k \in 1..Len(existingPlots) : ~ShareCell(new, existingPlots[k]) ]_vars

(* A plot the dense scan placed on a list that held a dragged plot *)
C4_Witness ==
    \E i \in 1..Len(placement) :
        /\ placement[i].via = "dense"
        /\ ~placement[i].inSequence
        /\ i > 1

(* C5: for any list of existing plots and any positive width and height,
   getNextPlotPosition terminates and returns a position from one of its
   three return statements, also when the grid is full or the rectangle is
   larger than the grid. *)
C5_TerminatesWithPosition ==
    (sw > 0 /\ sh > 0) ~> (pc = "done" /\ result.via \in {"spaced", "dense", "fallback"})

(* A call on a full grid that came back from the final fallback *)
C5_Witness ==
    /\ pc = "done" /\ result.via = "fallback"
    /\ sw = 20 /\ sh = 20 /\ Len(existingPlots) = 2

(* C6: on the 30x30 grid with margin 1 and spacing 1, three 5x3 plots placed
   in sequence, each call seeing the plots placed before it, are mutually
   non-overlapping, the first at (1,1), all with x in [1,28] and y in [1,26]. *)
C6_ThreeFiveByThree ==
    ( /\ Len(placement) = 3
      /\ \A i \in 1..3 : plots[i].width = 5 /\ plots[i].height = 3 /\ placement[i].inSequence )
    => /\ placement[1].x = 1 /\ placement[1].y = 1
       /\ \A i \in 1..3 : placement[i].x \in 1..28 /\ placement[i].y \in 1..26
       /\ \A i, j \in 1..3 : i < j => ~ShareCell(PlacedRect(i), PlacedRect(j))

(* The scenario: three 5x3 plots placed in sequence *)
C6_Witness ==
    /\ Len(placement) = 3
    /\ \A i \in 1..3 : plots[i].width = 5 /\ plots[i].height = 3 /\ placement[i].inSequence
    /\ GRID_MAX_WIDTH = 30 /\ GRID_MAX_HEIGHT = 30

(* Origins the scans visit at which a new plotWidth x plotHeight rectangle has
   an edge exactly on an edge of plot p (gap of 0 cells, not only a corner) *)
TouchingOrigins(p, plotWidth, plotHeight) ==
    { c \in ({p.x + p.width, p.x - plotWidth} \X ((p.y - plotHeight + 1)..(p.y + p.height - 1)))
            \cup (((p.x - plotWidth + 1)..(p.x + p.width - 1)) \X {p.y + p.height, p.y - plotHeight}) :
        /\ BOUNDARY_MARGIN <= c[1] /\ c[1] <= ScanMaxX(plotWidth)
        /\ BOUNDARY_MARGIN <= c[2] /\ c[2] <= ScanMaxY(plotHeight) }

(* C7 as stated: a candidate whose edge exactly touches an existing plot's
   edge is not treated as overlapping by the spaced scan and is treated as
   overlapping by the dense scan. *)
C7_TouchingFreeInSpaced ==
    \A k \in 1..Len(existingPlots) : \A s \in Sizes :
        \A c \in TouchingOrigins(existingPlots[k], s[1], s[2]) :
            /\ ~HasOverlapSpaced(c[1], c[2], s[1], s[2], existingPlots[k])
            /\ HasOverlapDense(c[1], c[2], s[1], s[2], existingPlots[k])

(* C7 amended: a candidate whose edge exactly touches an existing plot's edge
   is treated as overlapping by the spaced scan (which wants a gap of 1 cell)
   and is not treated as overlapping by the dense scan. *)
C7_TouchingFreeInDense ==
    \A k \in 1..Len(existingPlots) : \A s \in Sizes :
        \A c \in TouchingOrigins(existingPlots[k], s[1], s[2]) :
            /\ HasOverlapSpaced(c[1], c[2], s[1], s[2], existingPlots[k])
            /\ ~HasOverlapDense(c[1], c[2], s[1], s[2], existingPlots[k])

(* A plot the dense scan placed edge to edge with a plot placed before it *)
C7_Witness ==
    \E i, j \in 1..Len(placement) :
        /\ i < j
        /\ placement[j].via = "dense" /\ placement[j].inSequence
        /\ <<placement[j].x, placement[j].y>>
              \in TouchingOrigins(PlacedRect(i), plots[j].width, plots[j].height)
        /\ Len(existingPlots) = Len(plots)

(* C8: handleMouseMove does not look at other plots: whenever the snapped
   position differs from the dragged plot's position it is reported through
   onMove and stored, also when the plot then shares grid cells with another. *)
C8_DragIgnoresOtherPlots ==
    [][ Moved =>
            LET m == lastMove'
                plot == PlotById(existingPlots, m.id)
                cfg == gridSizeMap[gridSize]
                snappedX == SnapAxis(m.px, cfg.cellSize, cfg.width, plot.width)
                snappedY == SnapAxis(m.py, cfg.cellSize, cfg.height, plot.height)
            IN (snappedX # plot.x \/ snappedY # plot.y) =>
                  /\ m.reported
                  /\ PlotById(plots', m.id).x = snappedX
                  /\ PlotById(plots', m.id).y = snappedY ]_vars

(* Plots placed without overlap, then one drag that was reported and stored
   and left the dragged plot on cells of another plot *)
C8_Witness ==
    /\ moves = 1 /\ lastMove.reported
    /\ \A i \in 1..Len(placement) : placement[i].inSequence /\ placement[i].via \in Scans
    /\ \A i, j \in 1..Len(placement) : i < j => ~ShareCell(PlacedRect(i), PlacedRect(j))
    /\ \E j \in 1..Len(plots) :
          /\ plots[j].id # lastMove.id
          /\ ShareCell(PlotById(plots, lastMove.id), plots[j])

(* C9 as stated: a position returned by either scanning path keeps the new
   rectangle inside [margin, gridBound - dimension - margin] of the grid that
   is selected when the plot is added, on both axes (for a plot that fits
   that grid). *)
C9_HonoursSelectedGrid ==
    [][ Submitted =>
            LET n == Len(plots')
                new == plots'[n]
                cfg == gridSizeMap[gridSize]
            IN ( /\ placement'[n].via \in Scans
                 /\ new.width <= cfg.width - 2 * BOUNDARY_MARGIN
                 /\ new.height <= cfg.height - 2 * BOUNDARY_MARGIN )
               => InsideGrid(new, cfg.width, cfg.height, BOUNDARY_MARGIN) ]_vars

(* C10 as stated: a call with width <= 0 or height <= 0 is rejected with an
   InvalidDimension error and returns no position. *)
C10_RejectsInvalidDimension ==
    (pc = "done" /\ (sw <= 0 \/ sh <= 0)) => result.via = "InvalidDimension"

(* The value v held into [lo, hi]; the lower limit wins when hi < lo *)
ClampTo(v, lo, hi) ==
    IF v < lo \/ hi < lo THEN lo ELSE IF v > hi THEN hi ELSE v

(* The integers n with n - 1/2 <= num / den < n + 1/2: num / den rounded to the
   nearest integer, a half rounded up *)
RoundHalfUp(num, den) ==
    { n \in -4..44 : (2 * n - 1) * den <= 2 * num /\ 2 * num < (2 * n + 1) * den }

(* a and b differ by more than 0.1 *)
DiffersByMoreThanTenth(a, b) == 10 * (a - b) > 1 \/ 10 * (b - a) > 1

(* C11: for every raw pointer position handleMouseMove computes, per axis,
   snapped = round-half-up(clamp(raw, margin, gridBound - dimension - margin))
   with raw = pixels / cellSize, and calls onMove(plot.id, snappedX, snappedY)
   if and only if snappedX or snappedY differs from the plot's x or y by more
   than 0.1; otherwise nothing is reported and nothing is stored. *)
C11_SnapAndReportIffChanged ==
    [][ Moved =>
            LET m == lastMove'
                plot == PlotById(existingPlots, m.id)
                cfg == gridSizeMap[gridSize]
                cs == cfg.cellSize
                lo == DRAG_BOUNDARY_MARGIN * cs
                cx == ClampTo(m.px, lo, (cfg.width - plot.width - DRAG_BOUNDARY_MARGIN) * cs)
                cy == ClampTo(m.py, lo, (cfg.height - plot.height - DRAG_BOUNDARY_MARGIN) * cs)
            IN \E nx \in RoundHalfUp(cx, cs), ny \in RoundHalfUp(cy, cs) :
                  /\ m.reported <=> ( DiffersByMoreThanTenth(nx, plot.x)
                                       \/ DiffersByMoreThanTenth(ny, plot.y) )
                  /\ m.reported => /\ PlotById(plots', m.id).x = nx
                                    /\ PlotById(plots', m.id).y = ny
                  /\ ~m.reported => plots' = plots ]_vars

(* A reported move whose raw position, 105 px / 30 px = 3.5 cells, lay inside
   the limits and was rounded up to cell 4 on both axes *)
C11_Witness ==
    /\ lastMove.reported /\ lastMove.px = 105 /\ lastMove.py = 105
    /\ gridSize = "20x20"
    /\ PlotById(plots, lastMove.id).x = 4 /\ PlotById(plots, lastMove.id).y = 4

(* C13: a drag move changes only the x and y of the dragged plot: its id,
   width and height, and every other stored plot, are as before the move. *)
C13_MoveChangesOnlyPosition ==
    [][ Moved =>
            /\ Len(plots') = Len(plots)
            /\ \A i \in 1..Len(plots) :
                  /\ plots'[i].id = plots[i].id
                  /\ plots'[i].width = plots[i].width
                  /\ plots'[i].height = plots[i].height
                  /\ plots[i].id # lastMove'.id => plots'[i] = plots[i] ]_vars

(* A farm of several plots, one of which a reported move has taken away from
   where it was placed *)
C13_Witness ==
    /\ Len(plots) >= 2 /\ lastMove.reported
    /\ \E i \in 1..Len(plots) :
          /\ plots[i].id = lastMove.id
          /\ (plots[i].x # placement[i].x \/ plots[i].y # placement[i].y)
    /\ \E j \in 1..Len(plots) :
          plots[j].id # lastMove.id /\ plots[j].x = placement[j].x /\ plots[j].y = placement[j].y

(* C14: degenerate inputs return 0: calculatePolygonArea returns 0 for every
   point list of length 0, 1 or 2, and calculatePerimeter returns 0 for every
   point list of length 0 or 1. *)
C14_DegenerateReturnsZero ==
    /\ (Len(points) <= 2 /\ area # <<>>) => area = <<0>>
    /\ (Len(points) <= 1 /\ perimeter # <<>>) => perimeter = <<0>>

(* Both functions were called on two different points: the area is 0 although
   the perimeter is not *)
C14_Witness ==
    /\ Len(points) = 2
    /\ area = <<0>>
    /\ perimeter # <<>> /\ perimeter[1] > 0

(* x_i * y_k - x_k * y_i for the edge from point i to its successor k, the
   successor of the last point being the first *)
ShoelaceTerm(c, i) ==
    LET k == IF i = Len(c) THEN 1 ELSE i + 1
    IN c[i].x * c[k].y - c[k].x * c[i].y

(* The sum of the terms of the edges in the set S *)
RECURSIVE ShoelaceSum(_, _)
ShoelaceSum(c, S) ==
    IF S = {} THEN 0
    ELSE LET i == CHOOSE e \in S : TRUE
         IN ShoelaceTerm(c, i) + ShoelaceSum(c, S \ {i})

(* C15: for every list of at least 3 points calculatePolygonArea equals
   |sum over i of (x_i * y_(i+1) - x_(i+1) * y_i)| / 2 over the projected
   Cartesian points, the index after the last point wrapping to the first. *)
C15_ShoelaceOverClosedPolygon ==
    (Len(points) >= 3 /\ area # <<>>) =>
        LET c == cartesianPoints(points)
        IN area[1] = Abs(ShoelaceSum(c, 1..Len(c))) \div 2

(* The area of a four-corner list at 60 degrees north, where a degree of
   longitude is half as long as a degree of latitude *)
C15_Witness ==
    /\ Len(points) = 4 /\ points[1].latitude >= 60000
    /\ area # <<>> /\ area[1] > 0

(* The length of the edge from point i to point k *)
EdgeLength(ps, i, k) ==
    calculateDistance(ps[i].latitude, ps[i].longitude, ps[k].latitude, ps[k].longitude)

(* The sum of the lengths of the edges leaving the points in the set S, each
   to its successor, the successor of the last point being the first *)
RECURSIVE EdgeSum(_, _)
EdgeSum(ps, S) ==
    IF S = {} THEN 0
    ELSE LET i == CHOOSE e \in S : TRUE
         IN EdgeLength(ps, i, IF i = Len(ps) THEN 1 ELSE i + 1) + EdgeSum(ps, S \ {i})

(* C16: for every list of n >= 2 points calculatePerimeter is the sum of
   exactly n edge distances distance(point_i, point_(i+1 mod n)): the closing
   edge from the last point to the first is included, and for n = 2 the single
   segment is counted twice. *)
C16_PerimeterOfClosedPolygon ==
    (Len(points) >= 2 /\ perimeter # <<>>) =>
        /\ perimeter[1] = EdgeSum(points, 1..Len(points))
        /\ Len(points) = 2 => perimeter[1] = 2 * EdgeLength(points, 1, 2)

(* The perimeter of two different points: twice their distance *)
C16_Witness ==
    /\ Len(points) = 2
    /\ perimeter # <<>> /\ perimeter[1] > 0
    /\ perimeter[1] = 2 * EdgeLength(points, 1, 2)

(* This step is a completeBoundaryWalk that stored a measurement *)
Completed == Len(fieldMeasurements') = Len(fieldMeasurements) + 1

(* The latitude and longitude of the points, in order *)
Positions(ps) == [i \in 1..Len(ps) |-> <<ps[i].latitude, ps[i].longitude>>]

(* The corners (0,0), (0,0.001), (0.001,0.001), (0.001,0) in degrees *)
EquatorSquare == << <<0, 0>>, <<0, 1>>, <<1, 1>>, <<1, 0>> >>

(* C17: for the boundary points (0,0), (0,0.001), (0.001,0.001), (0.001,0) at
   the equator the measured area is about (111,320 x 0.001)^2, within a square
   metre of 12,392 square metres, and the stored acreage is that area divided
   by 4047 (here in thousandths of an acre, rounded down). *)
C17_EquatorSquareArea ==
    \A i \in 1..Len(fieldMeasurements) :
        LET m == fieldMeasurements[i]
        IN Positions(m.points) = EquatorSquare =>
              /\ Abs(m.area.squareMeters - 12392 * 10000) < 10000
              /\ 10 * 4047 * m.area.acres <= m.area.squareMeters
              /\ m.area.squareMeters < 10 * 4047 * (m.area.acres + 1)
              /\ m.area.acres = 3062

(* A stored measurement of a walk round the four corners in that order *)
C17_Witness ==
    \E i \in 1..Len(fieldMeasurements) :
        Positions(fieldMeasurements[i].points) = EquatorSquare

(* The points with their accuracies replaced by those of acc *)
WithAccuracy(ps, acc) == [i \in 1..Len(ps) |-> [ps[i] EXCEPT !.accuracy = acc[i]]]

(* Other accuracies for the points: all exact, all 1 km off, and good and poor
   exchanged point by point *)
OtherAccuracies(ps) ==
    { [i \in 1..Len(ps) |-> 0],
      [i \in 1..Len(ps) |-> 1000],
      [i \in 1..Len(ps) |-> IF ps[i].accuracy <= 20 THEN 50 ELSE 5] }

(* C18: GPS accuracy never influences a measurement: a completed walk is
   stored with every point marked, and its area, acreage and perimeter are
   those of the same latitudes and longitudes with any other accuracies; a
   marked corner is the current location whatever its accuracy. *)
C18_AccuracyIsMetadataOnly ==
    [][ /\ Completed =>
              LET m == fieldMeasurements'[Len(fieldMeasurements')]
              IN /\ m.points = currentWalk
                 /\ \A acc \in OtherAccuracies(currentWalk) :
                       LET other == WithAccuracy(currentWalk, acc)
                       IN /\ m.area.squareMeters = calculatePolygonArea(other)
                          /\ m.area.acres = acresOf(calculatePolygonArea(other))
                          /\ m.perimeter = calculatePerimeter(other)
        /\ (isWalking /\ isWalking' /\ Len(currentWalk') = Len(currentWalk) + 1) =>
              LET p == currentWalk'[Len(currentWalk')]
              IN /\ currentLocation # <<>>
                 /\ p.latitude = currentLocation[1].lat
                 /\ p.longitude = currentLocation[1].lng
                 /\ p.accuracy = currentLocation[1].accuracy ]_vars

(* A stored measurement with a positive area, some of whose corners were
   marked at an accuracy of 50 m *)
C18_Witness ==
    \E i \in 1..Len(fieldMeasurements) :
        /\ fieldMeasurements[i].area.squareMeters > 0
        /\ \E k \in 1..Len(fieldMeasurements[i].points) :
              fieldMeasurements[i].points[k].accuracy = 50
        /\ \E k \in 1..Len(fieldMeasurements[i].points) :
              fieldMeasurements[i].points[k].accuracy = 5

(* The walk after the step is the walk before it with one point added at its end *)
AppendedOne ==
    /\ Len(currentWalk') = Len(currentWalk) + 1
    /\ SubSeq(currentWalk', 1, Len(currentWalk)) = currentWalk

(* C19 as stated: from startBoundaryWalk until completeBoundaryWalk every
   operation leaves the current walk unchanged or appends exactly one point at
   its end; none removes or reorders points already marked. *)
C19_AppendOnlyUntilCompleted ==
    [][ (isWalking /\ ~Completed) => (currentWalk' = currentWalk \/ AppendedOne) ]_vars

(* C19 amended: while walking, every operation leaves the current walk
   unchanged, appends exactly one point at its end, or empties it
   (completeBoundaryWalk, and also cancelBoundaryWalk and
   clearAllMeasurements, which discard the marked points); none removes some
   of the marked points or reorders them. *)
C19_AppendOnlyOrEmptied ==
    [][ isWalking => ( \/ currentWalk' = currentWalk
                       \/ AppendedOne
                       \/ currentWalk' = <<>> ) ]_vars

(* A walk in progress with two corners marked at different places *)
C19_Witness ==
    /\ isWalking /\ Len(currentWalk) = 2
    /\ Positions(currentWalk)[1] # Positions(currentWalk)[2]

(* C20: every stored measurement has at least 3 points: completeBoundaryWalk
   with fewer than 3 marked points creates no measurement and leaves the
   current walk, the walking flag, the stored measurements and the boundary
   points unchanged. *)
C20_AtLeastThreePoints ==
    [][ /\ \A i \in 1..Len(fieldMeasurements') : Len(fieldMeasurements'[i].points) >= 3
        /\ Completed => Len(currentWalk) >= 3
        /\ alert' = "You need at least 3 points" =>
              /\ isWalking /\ Len(currentWalk) < 3
              /\ UNCHANGED <<currentWalk, isWalking, fieldMeasurements, boundaryPoints>> ]_vars

(* completeBoundaryWalk has just refused a walk of two corners *)
C20_Witness ==
    /\ alert = "You need at least 3 points"
    /\ isWalking /\ Len(currentWalk) = 2
    /\ fieldMeasurements = <<>>

(* C21: when GPS is unavailable (gpsSupported is false) startBoundaryWalk only
   alerts: it does not enter the walking state and registers no watch, so
   while GPS is unavailable no corner is marked and no measurement exists. *)
C21_NoWalkWithoutGps ==
    [][ /\ (mounted' /\ ~gpsSupported') =>
              /\ ~isWalking' /\ watchIdRef' = <<>>
              /\ currentWalk' = <<>> /\ fieldMeasurements' = <<>> /\ boundaryPoints' = <<>>
        /\ (mounted /\ ~gpsSupported) => watches' \subseteq watches
        /\ alert' = "GPS is not available" =>
              /\ ~gpsSupported
              /\ UNCHANGED <<isWalking, currentWalk, watchIdRef, watches,
                             fieldMeasurements, boundaryPoints>> ]_vars

(* startBoundaryWalk has just refused to start a walk *)
C21_Witness ==
    /\ alert = "GPS is not available"
    /\ mounted /\ ~gpsSupported /\ ~isWalking /\ watchIdRef = <<>>

(* This step removes the component, and its state with it *)
Unmounted == mounted /\ ~mounted'

(* C22: a stored measurement is an immutable snapshot: every step other than
   clearAllMeasurements (starting a new walk, marking corners, completing or
   cancelling another walk, a position callback) keeps every stored
   measurement, with its points, area, acreage and perimeter, as it is. *)
C22_StoredMeasurementsKept ==
    [][ \/ clearAllMeasurements
        \/ Unmounted
        \/ /\ Len(fieldMeasurements') >= Len(fieldMeasurements)
           /\ \A i \in 1..Len(fieldMeasurements) :
                  fieldMeasurements'[i] = fieldMeasurements[i] ]_vars

(* A second walk has been completed after a measurement of non-zero area was
   stored *)
C22_Witness ==
    /\ Len(fieldMeasurements) = 2
    /\ fieldMeasurements[1].area.squareMeters > 0
    /\ fieldMeasurements[1].points # fieldMeasurements[2].points

(* The points of the measurements, in the order of the measurements *)
RECURSIVE PointsOf(_)
PointsOf(measurements) ==
    IF measurements = <<>> THEN <<>>
    ELSE Head(measurements).points \o PointsOf(Tail(measurements))

(* The sum of the corner counts of the measurements *)
RECURSIVE CornerCount(_)
CornerCount(measurements) ==
    IF measurements = <<>> THEN 0
    ELSE Len(Head(measurements).points) + CornerCount(Tail(measurements))

(* C29: boundaryPoints is the concatenation, in completion order, of the
   points of all stored measurements, so the displayed count of GPS points is
   the sum of the corner counts of the stored measurements. *)
C29_BoundaryPointsOfMeasurements ==
    /\ boundaryPoints = PointsOf(fieldMeasurements)
    /\ Len(boundaryPoints) = CornerCount(fieldMeasurements)

(* Two measurements of different corners are stored and a third walk has begun *)
C29_Witness ==
    /\ Len(fieldMeasurements) = 2 /\ isWalking
    /\ Positions(fieldMeasurements[1].points) # Positions(fieldMeasurements[2].points)
    /\ Len(boundaryPoints) = 6

(* C30: whenever the surveyor is not walking no watch started by
   startBoundaryWalk is still registered, whatever watch id watchPosition
   returned, and at most one watch is registered at any time. *)
C30_NoWatchUnlessWalking ==
    /\ ~isWalking => watches = {}
    /\ Cardinality(watches) <= 1

(* This step is a mouseup event on the document *)
Released == buttonDown /\ ~buttonDown'

(* C28: a drag always ends: once handleMouseDown has set isDragging, the next
   mouseup on the document sets it to false, the listeners being registered
   when the mouse events occur and not left registered once the drag is over. *)
C28_MouseUpEndsDrag ==
    [][ Released => ~isDragging' ]_vars

(* The lattice of the spaced scan inside the bounded region: origins
   (margin + i * (width + 1), margin + j * (height + 1)) *)
LatticeOrigins(plotWidth, plotHeight) ==
    { c \in { <<BOUNDARY_MARGIN + i * (plotWidth + 1), BOUNDARY_MARGIN + j * (plotHeight + 1)>> :
                 i \in 0..GRID_MAX_WIDTH, j \in 0..GRID_MAX_HEIGHT } :
        /\ c[1] <= GRID_MAX_WIDTH - plotWidth - BOUNDARY_MARGIN
        /\ c[2] <= GRID_MAX_HEIGHT - plotHeight - BOUNDARY_MARGIN }

(* Every integer origin of the bounded region *)
RegionOrigins(plotWidth, plotHeight) ==
    (BOUNDARY_MARGIN..(GRID_MAX_WIDTH - plotWidth - BOUNDARY_MARGIN))
        \X (BOUNDARY_MARGIN..(GRID_MAX_HEIGHT - plotHeight - BOUNDARY_MARGIN))

(* The rectangle of the given size with its origin at c *)
RectAt(c, plotWidth, plotHeight) ==
    [x |-> c[1], y |-> c[2], width |-> plotWidth, height |-> plotHeight]

(* The buffered test: the rectangle touches no plot grown by the spacing *)
GapFree(existing, c, plotWidth, plotHeight) ==
    \A k \in 1..Len(existing) :
        ~ShareCell(RectAt(c, plotWidth, plotHeight), Expand(existing[k], SPACING))

(* The rectangle shares no cell with a plot of the list *)
CellFree(existing, c, plotWidth, plotHeight) ==
    \A k \in 1..Len(existing) : ~ShareCell(RectAt(c, plotWidth, plotHeight), existing[k])

(* c is the first origin of the set in row-major order: rows from the top,
   each row from the left *)
RowMajorFirst(origins, c) ==
    /\ c \in origins
    /\ \A d \in origins : d[2] > c[2] \/ (d[2] = c[2] /\ d[1] >= c[1])

(* C23: a position the spaced scan returns is the first candidate, in
   row-major order over the lattice x = margin + i * (width + 1),
   y = margin + j * (height + 1) inside the bounded region, that passes the
   buffered test. *)
C23_FirstLatticeCandidate ==
    (pc = "done" /\ result.via = "spaced") =>
        RowMajorFirst({ c \in LatticeOrigins(sw, sh) : GapFree(existingPlots, c, sw, sh) },
                      <<result.x, result.y>>)

(* A spaced scan that went past rejected candidates to a later row *)
C23_Witness ==
    /\ pc = "done" /\ result.via = "spaced"
    /\ result.y > BOUNDARY_MARGIN
    /\ \E c \in LatticeOrigins(sw, sh) :
          c[2] < result.y /\ ~GapFree(existingPlots, c, sw, sh)

(* C24: the tiers are tried in order: a dense position is returned only when
   every candidate of the spaced lattice fails the buffered test, and the
   final fallback only when moreover every integer origin of the bounded
   region overlaps some plot of the list, or the region is empty. *)
C24_TiersInOrder ==
    [][ Submitted =>
            LET n == Len(plots')
                w == plots'[n].width
                h == plots'[n].height
                noneSpaced == \A c \in LatticeOrigins(w, h) : ~GapFree(existingPlots, c, w, h)
                noneDense == \A c \in RegionOrigins(w, h) : ~CellFree(existingPlots, c, w, h)
            IN /\ placement'[n].via = "spaced" => ~noneSpaced
               /\ placement'[n].via = "dense" => (noneSpaced /\ ~noneDense)
               /\ placement'[n].via = "fallback" => (noneSpaced /\ noneDense) ]_vars

(* A farm whose second plot came from the final fallback and whose third plot
   came from the dense scan *)
C24_Witness ==
    /\ Len(placement) = 3
    /\ placement[1].via = "spaced"
    /\ placement[2].via = "fallback"
    /\ placement[3].via = "dense"

(* C25: a position N the spaced scan accepted leaves a gap of at least 1 cell
   to every plot P of the list: N.x >= P.x + P.width + 1, or
   N.x + N.width <= P.x - 1, or N.y >= P.y + P.height + 1, or
   N.y + N.height <= P.y - 1. *)
C25_SpacedLeavesGap ==
    [][ (Submitted /\ placement'[Len(plots')].via = "spaced") =>
            LET N == plots'[Len(plots')]
            IN \A k \in 1..Len(existingPlots) :
                  LET P == existingPlots[k]
                  IN \/ N.x >= P.x + P.width + 1
                     \/ N.x + N.width <= P.x - 1
                     \/ N.y >= P.y + P.height + 1
                     \/ N.y + N.height <= P.y - 1 ]_vars

(* A plot the spaced scan placed exactly 1 cell to the right of a plot of the
   list, in the same row *)
C25_Witness ==
    \E i, j \in 1..Len(placement) :
        /\ i < j
        /\ placement[j].via = "spaced" /\ placement[j].inSequence
        /\ placement[j].x = placement[i].x + plots[i].width + 1
        /\ placement[j].y = placement[i].y

(* Every plot was placed on the up-to-date list and none was dragged *)
AllInSequence == \A i \in 1..Len(placement) : placement[i].inSequence

(* C26: from an empty farm, after any sequence of creations each positioned
   on the up-to-date list and with no drag, no two plots share a grid cell,
   also when some were placed by the final fallback. *)
C26_SequentialPlotsDisjoint ==
    AllInSequence =>
        \A i, j \in 1..Len(plots) : i < j => ~ShareCell(plots[i], plots[j])

(* Three plots placed in sequence, the last two by the final fallback *)
C26_Witness ==
    /\ Len(plots) = 3 /\ AllInSequence
    /\ placement[2].via = "fallback" /\ placement[3].via = "fallback"
    /\ plots[3].y = plots[2].y + plots[2].height + 1

(* C27: every plot created through handleSubmit shares no cell with a plot
   already stored at the moment it is stored, also when two plots are
   submitted before the cached list is refreshed. *)
C27_CreatedPlotFreeOfStored ==
    [][ Submitted =>
            \A k \in 1..Len(plots) : ~ShareCell(plots'[Len(plots')], plots[k]) ]_vars

====
